---------------------------- MODULE Spec2Model ----------------------------
(***************************************************************************)
(* A model of the asynchronous I/O worker pool of rdedup                   *)
(* (lib/src/aio/mod.rs): the AsyncIO facade, the bounded work queue, the   *)
(* worker threads (AsyncIOThread), the shared in-progress registry and     *)
(* write statistics, the reply channels behind AsyncIOResult, and the      *)
(* shutdown protocol of the facade and of AsyncIOShared.                   *)
(*                                                                         *)
(* The concrete backend (aio/local.rs) and the queue crate are not part    *)
(* of the sources read here; the backend is modelled from its contract:    *)
(* one file store shared by all per-worker instances.                      *)
(***************************************************************************)
EXTENDS Integers, Sequences, FiniteSets, TLC

(***************************************************************************)
(* Bounds of the model.                                                    *)
(***************************************************************************)
\* The number of worker threads.
ThreadNum == 2
\* The number of operations callers submit in one behaviour.
MaxOps == 2
\* The same, where the callers only write and read (RWSpec).
MaxOpsRW == 3
\* The number of AsyncIO values (the original and its clones) ever made.
MaxClones == 2
\* The number of files of the tree that list_recursively walks (ListSpec).
MaxFiles == 250
\* The number of listings of that tree in one behaviour (ListSpec).
MaxOpsList == 1
\* An entry the walk fails to read is among its first MaxWalkErrAt entries.
MaxWalkErrAt == 2
\* The backup binary: the number of non-empty reads of its input, the
\* length of a read (the source reads up to 16 * 1024 bytes), and the
\* number of chunk edges the rolling sum finds in one run.
MaxReads == 2
MaxBufLen == 2
MaxChunks == 2

(***************************************************************************)
(* Paths.  A path is absolute or relative and has components.              *)
(***************************************************************************)
Path(abs, comps) == [abs |-> abs, comps |-> comps]

\* AsyncIOThread.root_path
RootPath == Path(TRUE, <<"r">>)

\* The paths callers pass to the facade: two relative ones, and an absolute
\* one that names the same file as the first.
CallerPaths ==
    { Path(FALSE, <<"a">>), Path(FALSE, <<"b">>), Path(TRUE, <<"r", "a">>) }

\* PathBuf::join: an absolute argument replaces the base.
Join(base, p) ==
    IF p.abs THEN p ELSE Path(base.abs, base.comps \o p.comps)

\* The paths the backend sees.
JoinedPaths == { Join(RootPath, p) : p \in CallerPaths }

\* A directory below the root and the files of the tree in it.
SubPath == Path(FALSE, <<"sub">>)
TreeFile(i) == Path(TRUE, <<"r", "sub", ToString(i)>>)
TreePaths == { TreeFile(i) : i \in 1 .. MaxFiles }

\* Path::starts_with: `pre` is `p` or one of its ancestors.
StartsWith(p, pre) ==
    /\ p.abs = pre.abs
    /\ Len(pre.comps) <= Len(p.comps)
    /\ SubSeq(p.comps, 1, Len(pre.comps)) = pre.comps

(***************************************************************************)
(* Payloads: SGData, seen as its bytes.                                    *)
(***************************************************************************)
Hello == <<104, 101, 108, 108, 111>>
Data == { <<118>>, Hello }

\* What the store holds at a path: no file, or a file and its content.
NoFile == <<>>
File(d) == << d >>
Content(f) == f[1]
StoreValues == { NoFile } \cup { File(d) : d \in Data }

(***************************************************************************)
(* io::Result                                                              *)
(***************************************************************************)
Ok(v) == [ok |-> TRUE, val |-> v]
Err(e) == [ok |-> FALSE, val |-> e]
Unit == "()"

(***************************************************************************)
(* Messages sent to the worker pool.  `id` names the reply channel made    *)
(* by the submitting call (a checked write has an id and no channel).      *)
(***************************************************************************)
Msg(id, kind, path, dst, data, idempotent, has_tx) ==
    [id |-> id, kind |-> kind, path |-> path, dst |-> dst, data |-> data,
     idempotent |-> idempotent, has_tx |-> has_tx]

NoMsg == Msg(0, "None", RootPath, RootPath, <<>>, FALSE, FALSE)

\* What each submitting method of AsyncIO puts in its message; the id is
\* given when the message is sent.
\* AsyncIO::write, write_idempotent, write_checked, write_checked_idempotent
WriteMsgs ==
    { Msg(0, "Write", p, p, d, idem, tx) :
        p \in CallerPaths, d \in Data, idem \in BOOLEAN, tx \in BOOLEAN }

\* AsyncIO::read, read_metadata, list, list_recursively, remove, remove_dir_all
PathMsgs ==
    { Msg(0, k, p, p, <<>>, FALSE, TRUE) :
        k \in {"Read", "ReadMetadata", "List", "ListRecursively",
               "Remove", "RemoveDirAll"},
        p \in CallerPaths }

\* AsyncIO::rename
RenameMsgs ==
    { Msg(0, "Rename", s, d, <<>>, FALSE, TRUE) :
        s \in CallerPaths, d \in CallerPaths }

AllMsgs == WriteMsgs \cup PathMsgs \cup RenameMsgs

(***************************************************************************)
(* The pool's size.                                                        *)
(***************************************************************************)
\* AsyncIO::new: thread_num, the number of workers and the capacity of the
\* work queue.  The source takes 4 * num_cpus::get(); the model bounds it.
Workers == 1 .. ThreadNum
OpIds == 1 .. (IF MaxOps > MaxOpsRW THEN MaxOps ELSE MaxOpsRW)

VARIABLES
    \* the facade and its shutdown
    made,         \* AsyncIO values made so far: the original and its clones
    facades,      \* AsyncIO values alive (their drop has not begun)
    dropping,     \* AsyncIO values inside their drop: tx taken, fields not yet dropped
    senders,      \* live two_lock_queue::Sender handles
    arcs,         \* strong count of Arc<AsyncIOShared>
    phase,        \* "running", "joining", "joined", "torn_down", "join_panicked"
    join,         \* AsyncIOShared.join: the JoinHandles not yet joined
    \* the work queue
    queue,        \* messages enqueued and not yet received
    \* AsyncIOSharedInner
    in_progress,  \* HashSet<PathBuf>
    write_stats,  \* WriteStats
    \* the worker threads
    pc,           \* where each worker is
    cur,          \* the message a worker is processing
    want,         \* the paths it has still to acquire, in order
    guards,       \* the PendingGuards it holds, in acquisition order
    out,          \* the results it has still to send
    \* the backend
    store,        \* the files under the root
    \* the callers' side
    ops,          \* the messages submitted so far, in submission order
    rx,           \* each reply channel's receiver: "none", "held", "done", "dropped"
    reply,        \* each reply channel: everything sent on it so far
    \* history
    calls,        \* per operation, the backend calls made for it
    ctx           \* per operation, what the caller had seen when submitting it

poolVars == << made, facades, dropping, senders, arcs, phase, join, queue,
               in_progress, write_stats, pc, cur, want, guards, out, store,
               ops, rx, reply, calls, ctx >>

\* The backup binary (src/bin.rs): the main thread, which chunks its input
\* and sends it on a channel, and the chunk_writer thread.
VARIABLES
    chan,         \* the mpsc channel from main to chunk_writer
    pending_data, \* chunk_writer: the buffers of the chunk not yet written
    chunker,      \* store_with_io_func: its Chunker
    index,        \* store_with_io_func: the length of `index`
    chunk_type,   \* store_with_io_func: "Data" or "Index"
    feed,         \* the length of the index the recursive call is given to read
    stdin_reads,  \* the non-empty reads of stdin so far
    rolled,       \* the edges the rolling sum has found so far
    main_pc,      \* where the main thread is
    writer_pc     \* where the chunk_writer thread is

binVars == << chan, pending_data, chunker, index, chunk_type, feed,
              stdin_reads, rolled, main_pc, writer_pc >>

vars == << poolVars, binVars >>

facadeVars == << made, facades, dropping, senders, arcs, phase, join >>
workerVars == << pc, cur, want, guards, out >>
callerVars == << ops, rx, reply, ctx >>

(***************************************************************************)
(* The backend contract (BackendInstance), over one shared file store.     *)
(* Each operator gives the set of outcomes a call can have: the result     *)
(* and the store afterwards.                                               *)
(***************************************************************************)
Outcome(res, st) == [res |-> res, store |-> st]

Exists(st, p) == \E q \in DOMAIN st : st[q] # NoFile /\ StartsWith(q, p)

\* The regular files at or below `p`, in the order the walk meets them.
FileOrder ==
    << Path(TRUE, <<"r", "a">>), Path(TRUE, <<"r", "b">>) >>
    \o [i \in 1 .. MaxFiles |-> TreeFile(i)]
FilesUnder(st, p) ==
    LET Keep(q) == q \in DOMAIN st /\ st[q] # NoFile /\ StartsWith(q, p)
    IN  SelectSeq(FileOrder, Keep)

\* write: stores the payload, or fails and stores nothing; an idempotent
\* write of an existing path may be skipped.
BackendWrite(st, p, d, idempotent) ==
    { Outcome(Ok(Unit), [st EXCEPT ![p] = File(d)]),
      Outcome(Err("Other"), st) }
    \cup IF idempotent /\ st[p] # NoFile THEN { Outcome(Ok(Unit), st) } ELSE {}

BackendRead(st, p) ==
    IF st[p] = NoFile THEN { Outcome(Err("NotFound"), st) }
    ELSE { Outcome(Ok(Content(st[p])), st) }

BackendReadMetadata(st, p) ==
    IF st[p] = NoFile THEN { Outcome(Err("NotFound"), st) }
    ELSE { Outcome(Ok([len |-> Len(Content(st[p])), is_file |-> TRUE]), st) }

BackendList(st, p) ==
    IF ~Exists(st, p) THEN { Outcome(Err("NotFound"), st) }
    ELSE { Outcome(Ok(FilesUnder(st, p)), st) }

BackendRemove(st, p) ==
    IF st[p] = NoFile THEN { Outcome(Err("NotFound"), st) }
    ELSE { Outcome(Ok(Unit), [st EXCEPT ![p] = NoFile]) }

BackendRemoveDirAll(st, p) ==
    IF ~Exists(st, p) THEN { Outcome(Err("NotFound"), st) }
    ELSE { Outcome(Ok(Unit),
                   [q \in DOMAIN st |-> IF StartsWith(q, p) THEN NoFile ELSE st[q]]) }

BackendRename(st, s, d) ==
    IF st[s] = NoFile THEN { Outcome(Err("NotFound"), st) }
    ELSE { Outcome(Ok(Unit),
                   [q \in DOMAIN st |->
                       IF q = d THEN st[s] ELSE IF q = s THEN NoFile ELSE st[q]]) }

(***************************************************************************)
(* list_recursively's walk and batching.                                   *)
(***************************************************************************)
\* A batch is flushed once it holds more than this many entries.
BatchLimit == 100

\* What WalkDir yields for `p` when every entry can be read: `p` itself
\* when it is a directory, then one entry per file below it.
Walk(st, p) ==
    LET fs == FilesUnder(st, p)
        is_dir == ~(p \in DOMAIN st /\ st[p] # NoFile)
    IN  (IF is_dir THEN << [ok |-> TRUE, is_file |-> FALSE, path |-> p] >>
                   ELSE <<>>)
        \o [i \in 1 .. Len(fs) |-> [ok |-> TRUE, is_file |-> TRUE, path |-> fs[i]]]

\* The walks WalkDir can yield: the one above, or one in which an entry
\* could not be read and an error stands in its place.
Walks(st, p) ==
    LET wk == Walk(st, p)
        last == IF Len(wk) < MaxWalkErrAt THEN Len(wk) ELSE MaxWalkErrAt
    IN  { wk } \cup { [wk EXCEPT ![k].ok = FALSE] : k \in 1 .. last }

\* The state of the loop over the walk's entries: the batch being filled
\* and what was sent on the reply channel so far.
LoopState(v, sent) == [v |-> v, sent |-> sent]

\* WalkStep with a fault: the batch is flushed once it holds BatchLimit
\* entries.
WalkStepAtLimit(ls, e) ==
    IF ~e.ok THEN LoopState(ls.v, Append(ls.sent, Err("Walk")))
    ELSE IF ~e.is_file THEN ls
    ELSE LET v2 == Append(ls.v, e.path)
         IN  IF Len(v2) >= BatchLimit
             THEN LoopState(<<>>, Append(ls.sent, Ok(v2)))
             ELSE LoopState(v2, ls.sent)

\* WalkStep with a fault: entries that are not regular files are listed
\* like the files.
WalkStepOfAll(ls, e) ==
    IF ~e.ok THEN LoopState(ls.v, Append(ls.sent, Err("Walk")))
    ELSE LET v2 == Append(ls.v, e.path)
         IN  IF Len(v2) > BatchLimit
             THEN LoopState(<<>>, Append(ls.sent, Ok(v2)))
             ELSE LoopState(v2, ls.sent)

\* One turn of the loop, on entry `e` of the walk.
WalkStep(ls, e) ==
    IF ~e.ok THEN LoopState(ls.v, Append(ls.sent, Err("Walk")))
    ELSE IF ~e.is_file THEN ls
    ELSE LET v2 == Append(ls.v, e.path)
         IN  IF Len(v2) > BatchLimit
             THEN LoopState(<<>>, Append(ls.sent, Ok(v2)))
             ELSE LoopState(v2, ls.sent)

\* The loop over entries lo .. hi, in order, from loop state `ls`.  The
\* range is halved, and the first half is worked out before the second
\* begins, so that the evaluation stays shallow.
RECURSIVE WalkLoop(_, _, _, _)
WalkLoop(entries, lo, hi, ls) ==
    IF lo > hi THEN ls
    ELSE IF lo = hi THEN WalkStep(ls, entries[lo])
    ELSE LET mid == (lo + hi) \div 2
             half == WalkLoop(entries, lo, mid, ls)
         IN  IF Len(half.v) <= BatchLimit
             THEN WalkLoop(entries, mid + 1, hi, half)
             ELSE half

\* The loop over the walk's entries, `v` the batch to begin with, and the
\* flush of what is left after it: what is sent on the reply channel, in
\* order.
Batches(entries, v) ==
    LET ls == WalkLoop(entries, 1, Len(entries), LoopState(v, <<>>))
    IN  IF ls.v # <<>> THEN Append(ls.sent, Ok(ls.v)) ELSE ls.sent

\* list_recursively with a fault: the walk is started without looking
\* whether the path exists, and reports the missing root as an error.
list_recursively_unchecked(st, p) ==
    IF ~Exists(st, p) THEN { << Err("NotFound") >> }
    ELSE { Batches(wk, <<>>) : wk \in Walks(st, p) }

\* list_recursively: what the handler sends on the reply channel, in
\* order; nothing at all when the path does not exist.
list_recursively(st, p) ==
    IF ~Exists(st, p) THEN { <<>> }
    ELSE { Batches(wk, <<>>) : wk \in Walks(st, p) }

(***************************************************************************)
(* The worker thread: AsyncIOThread::run and the handlers it calls.        *)
(***************************************************************************)
\* Wanted with a fault: a rename acquires its dst only when it differs
\* from its src.
WantedDistinct(m) ==
    CASE m.kind \in {"Write", "Read", "ReadMetadata", "Remove"} ->
             << Join(RootPath, m.path) >>
      [] m.kind = "Rename" ->
             IF Join(RootPath, m.path) = Join(RootPath, m.dst)
             THEN << Join(RootPath, m.path) >>
             ELSE << Join(RootPath, m.path), Join(RootPath, m.dst) >>
      [] OTHER -> <<>>

\* Wanted with a fault: every handler acquires the path it works on.
WantedByAll(m) ==
    CASE m.kind = "Rename" ->
             << Join(RootPath, m.path), Join(RootPath, m.dst) >>
      [] OTHER -> << Join(RootPath, m.path) >>

\* The paths a handler acquires through pending_wait_and_insert, in order.
Wanted(m) ==
    CASE m.kind \in {"Write", "Read", "ReadMetadata", "Remove"} ->
             << Join(RootPath, m.path) >>
      [] m.kind = "Rename" ->
             << Join(RootPath, m.path), Join(RootPath, m.dst) >>
      [] OTHER -> <<>>

\* Handle with a fault: read hands the caller's path to the backend as it
\* came, without joining it onto the root.
HandleReadUnjoined(m, st) ==
    LET p == Join(RootPath, m.path)
        One(os) == { [out |-> << o.res >>, store |-> o.store] : o \in os }
    IN  CASE m.kind = "Write" -> One(BackendWrite(st, p, m.data, m.idempotent))
          [] m.kind = "Read" ->
                 IF m.path \in DOMAIN st THEN One(BackendRead(st, m.path))
                 ELSE { [out |-> << Err("NotFound") >>, store |-> st] }
          [] m.kind = "ReadMetadata" -> One(BackendReadMetadata(st, p))
          [] m.kind = "List" -> One(BackendList(st, p))
          [] m.kind = "Remove" -> One(BackendRemove(st, p))
          [] m.kind = "RemoveDirAll" -> One(BackendRemoveDirAll(st, p))
          [] m.kind = "Rename" ->
                 One(BackendRename(st, p, Join(RootPath, m.dst)))
          [] m.kind = "ListRecursively" ->
                 { [out |-> o, store |-> st] : o \in list_recursively(st, p) }

\* The handler's backend call: the results to send and the store afterwards.
Handle(m, st) ==
    LET p == Join(RootPath, m.path)
        One(os) == { [out |-> << o.res >>, store |-> o.store] : o \in os }
    IN  CASE m.kind = "Write" -> One(BackendWrite(st, p, m.data, m.idempotent))
          [] m.kind = "Read" -> One(BackendRead(st, p))
          [] m.kind = "ReadMetadata" -> One(BackendReadMetadata(st, p))
          [] m.kind = "List" -> One(BackendList(st, p))
          [] m.kind = "Remove" -> One(BackendRemove(st, p))
          [] m.kind = "RemoveDirAll" -> One(BackendRemoveDirAll(st, p))
          [] m.kind = "Rename" ->
                 One(BackendRename(st, p, Join(RootPath, m.dst)))
          [] m.kind = "ListRecursively" ->
                 { [out |-> o, store |-> st] : o \in list_recursively(st, p) }

\* Whether the handler calls the backend (list_recursively walks by itself).
CallsBackend(m) == m.kind # "ListRecursively"

\* run: rx.recv() returns a message.
Recv(w) ==
    /\ pc[w] = "recv"
    /\ queue # <<>>
    /\ LET m == Head(queue)
       IN  /\ cur' = [cur EXCEPT ![w] = m]
           /\ want' = [want EXCEPT ![w] = Wanted(m)]
           /\ pc' = [pc EXCEPT ![w] =
                        IF Wanted(m) = <<>> THEN "backend" ELSE "acquire"]
    /\ queue' = Tail(queue)
    /\ UNCHANGED binVars
    /\ UNCHANGED << facadeVars, in_progress, write_stats, guards, out, store,
                    callerVars, calls >>

\* Exit with a fault: the worker leaves its loop whenever it finds the queue
\* empty, closed or not.
ExitOnEmpty(w) ==
    /\ pc[w] = "recv"
    /\ queue = <<>>
    /\ pc' = [pc EXCEPT ![w] = "exited"]
    /\ UNCHANGED binVars
    /\ UNCHANGED << facadeVars, queue, in_progress, write_stats, cur, want,
                    guards, out, store, callerVars, calls >>

\* run: rx.recv() reports the queue closed; the loop breaks.
Exit(w) ==
    /\ pc[w] = "recv"
    /\ queue = <<>>
    /\ senders = 0
    /\ pc' = [pc EXCEPT ![w] = "exited"]
    /\ UNCHANGED binVars
    /\ UNCHANGED << facadeVars, queue, in_progress, write_stats, cur, want,
                    guards, out, store, callerVars, calls >>

\* Acquire with a fault: the path is inserted without looking whether it is
\* in the set already.
AcquireUnchecked(w) ==
    /\ pc[w] = "acquire"
    /\ in_progress' = in_progress \cup {Head(want[w])}
    /\ guards' = [guards EXCEPT ![w] = Append(@, Head(want[w]))]
    /\ want' = [want EXCEPT ![w] = Tail(@)]
    /\ pc' = [pc EXCEPT ![w] =
                 IF Tail(want[w]) = <<>> THEN "backend" ELSE "acquire"]
    /\ UNCHANGED binVars
    /\ UNCHANGED << facadeVars, queue, write_stats, cur, out, store,
                    callerVars, calls >>

\* pending_wait_and_insert, one turn of its loop under the mutex.
Acquire(w) ==
    /\ pc[w] = "acquire"
    /\ LET p == Head(want[w])
       IN  IF p \in in_progress
           THEN /\ pc' = [pc EXCEPT ![w] = "sleep"]
                /\ UNCHANGED << in_progress, want, guards >>
           ELSE /\ in_progress' = in_progress \cup {p}
                /\ guards' = [guards EXCEPT ![w] = Append(@, p)]
                /\ want' = [want EXCEPT ![w] = Tail(@)]
                /\ pc' = [pc EXCEPT ![w] =
                             IF Tail(want[w]) = <<>> THEN "backend" ELSE "acquire"]
    /\ UNCHANGED binVars
    /\ UNCHANGED << facadeVars, queue, write_stats, cur, out, store,
                    callerVars, calls >>

\* Wake with a fault: after the one sleep the path is inserted without
\* another look at the set.
WakeAndInsert(w) ==
    /\ pc[w] = "sleep"
    /\ in_progress' = in_progress \cup {Head(want[w])}
    /\ guards' = [guards EXCEPT ![w] = Append(@, Head(want[w]))]
    /\ want' = [want EXCEPT ![w] = Tail(@)]
    /\ pc' = [pc EXCEPT ![w] =
                 IF Tail(want[w]) = <<>> THEN "backend" ELSE "acquire"]
    /\ UNCHANGED binVars
    /\ UNCHANGED << facadeVars, queue, write_stats, cur, out, store,
                    callerVars, calls >>

\* pending_wait_and_insert: the sleep ends and the loop turns again.
Wake(w) ==
    /\ pc[w] = "sleep"
    /\ pc' = [pc EXCEPT ![w] = "acquire"]
    /\ UNCHANGED binVars
    /\ UNCHANGED << facadeVars, queue, in_progress, write_stats, cur, want,
                    guards, out, store, callerVars, calls >>

\* BackendCall with a fault: a call that failed is made once more.
BackendCallRetried(w) ==
    /\ pc[w] = "backend"
    /\ \E h \in Handle(cur[w], store) :
          /\ store' = h.store
          /\ out' = [out EXCEPT ![w] = h.out]
          /\ pc' = [pc EXCEPT ![w] =
                       IF /\ CallsBackend(cur[w]) /\ ~Head(h.out).ok
                          /\ calls[cur[w].id] = 0
                       THEN "backend"
                       ELSE IF guards[w] = <<>> THEN "send" ELSE "release"]
    /\ calls' = [calls EXCEPT ![cur[w].id] =
                    IF CallsBackend(cur[w]) THEN @ + 1 ELSE @]
    /\ UNCHANGED binVars
    /\ UNCHANGED << facadeVars, queue, in_progress, write_stats, cur, want,
                    guards, callerVars >>

\* BackendCall with a fault: when the call failed the handler leaves
\* without dropping its guards.
BackendCallErrorKeepsGuards(w) ==
    /\ pc[w] = "backend"
    /\ \E h \in Handle(cur[w], store) :
          /\ store' = h.store
          /\ out' = [out EXCEPT ![w] = h.out]
          /\ pc' = [pc EXCEPT ![w] =
                       IF guards[w] = <<>> \/ ~Head(h.out).ok
                       THEN "send" ELSE "release"]
    /\ calls' = [calls EXCEPT ![cur[w].id] =
                    IF CallsBackend(cur[w]) THEN @ + 1 ELSE @]
    /\ UNCHANGED binVars
    /\ UNCHANGED << facadeVars, queue, in_progress, write_stats, cur, want,
                    guards, callerVars >>

\* The handler's call into its backend instance returns.
BackendCall(w) ==
    /\ pc[w] = "backend"
    /\ \E h \in Handle(cur[w], store) :
          /\ store' = h.store
          /\ out' = [out EXCEPT ![w] = h.out]
    /\ calls' = [calls EXCEPT ![cur[w].id] =
                    IF CallsBackend(cur[w]) THEN @ + 1 ELSE @]
    /\ pc' = [pc EXCEPT ![w] = IF guards[w] = <<>> THEN "send" ELSE "release"]
    /\ UNCHANGED binVars
    /\ UNCHANGED << facadeVars, queue, in_progress, write_stats, cur, want,
                    guards, callerVars >>

\* Release with a fault: the path is taken out of the set only when the
\* backend call succeeded.
ReleaseOnSuccessOnly(w) ==
    /\ pc[w] = "release"
    /\ LET n == Len(guards[w])
       IN  /\ in_progress' = IF Head(out[w]).ok
                             THEN in_progress \ {guards[w][n]}
                             ELSE in_progress
           /\ guards' = [guards EXCEPT ![w] = SubSeq(@, 1, n - 1)]
           /\ pc' = [pc EXCEPT ![w] = IF n = 1 THEN "send" ELSE "release"]
    /\ UNCHANGED binVars
    /\ UNCHANGED << facadeVars, queue, write_stats, cur, want, out, store,
                    callerVars, calls >>

\* Release with a fault: the guards go all at once and only the path of
\* the one acquired last is taken out of the set.
ReleaseLastOnly(w) ==
    /\ pc[w] = "release"
    /\ LET n == Len(guards[w])
       IN  /\ in_progress' = in_progress \ {guards[w][n]}
           /\ guards' = [guards EXCEPT ![w] = <<>>]
           /\ pc' = [pc EXCEPT ![w] = "send"]
    /\ UNCHANGED binVars
    /\ UNCHANGED << facadeVars, queue, write_stats, cur, want, out, store,
                    callerVars, calls >>

\* PendingGuard::drop, the guard acquired last first.
Release(w) ==
    /\ pc[w] = "release"
    /\ LET n == Len(guards[w])
       IN  /\ in_progress' = in_progress \ {guards[w][n]}
           /\ guards' = [guards EXCEPT ![w] = SubSeq(@, 1, n - 1)]
           /\ pc' = [pc EXCEPT ![w] = IF n = 1 THEN "send" ELSE "release"]
    /\ UNCHANGED binVars
    /\ UNCHANGED << facadeVars, queue, write_stats, cur, want, out, store,
                    callerVars, calls >>

\* The handler is over: back to run's loop.
Idle(w, p) ==
    /\ pc' = [p EXCEPT ![w] = "recv"]
    /\ cur' = [cur EXCEPT ![w] = NoMsg]

\* tx.send(res).expect("send failed") on a live receiver.
Send(w) ==
    /\ pc[w] = "send"
    /\ cur[w].has_tx
    /\ out[w] # <<>>
    /\ rx[cur[w].id] = "held"
    /\ reply' = [reply EXCEPT ![cur[w].id] = Append(@, Head(out[w]))]
    /\ out' = [out EXCEPT ![w] = Tail(@)]
    /\ IF Tail(out[w]) = <<>> THEN Idle(w, pc) ELSE UNCHANGED << pc, cur >>
    /\ UNCHANGED binVars
    /\ UNCHANGED << facadeVars, queue, in_progress, write_stats, want, guards,
                    store, ops, rx, ctx, calls >>

\* tx.send(res).expect("send failed") when the receiver is gone: the
\* worker thread panics.
SendFailed(w) ==
    /\ pc[w] = "send"
    /\ cur[w].has_tx
    /\ out[w] # <<>>
    /\ rx[cur[w].id] # "held"
    /\ pc' = [pc EXCEPT ![w] = "panicked"]
    /\ cur' = [cur EXCEPT ![w] = NoMsg]
    /\ out' = [out EXCEPT ![w] = <<>>]
    /\ UNCHANGED binVars
    /\ UNCHANGED << facadeVars, queue, in_progress, write_stats, want, guards,
                    store, callerVars, calls >>

\* Nothing (more) to send: a write without a reply channel, whose result
\* is dropped, or a list_recursively that sent no batch.
NoSend(w) ==
    /\ pc[w] = "send"
    /\ ~cur[w].has_tx \/ out[w] = <<>>
    /\ out' = [out EXCEPT ![w] = <<>>]
    /\ Idle(w, pc)
    /\ UNCHANGED binVars
    /\ UNCHANGED << facadeVars, queue, in_progress, write_stats, want, guards,
                    store, callerVars, calls >>

WorkerNext(w) ==
    \/ Recv(w)
    \/ Acquire(w)
    \/ Wake(w)
    \/ BackendCall(w)
    \/ Release(w)
    \/ Send(w)
    \/ SendFailed(w)
    \/ NoSend(w)

(***************************************************************************)
(* The facade: AsyncIO, its clones and its drop.                           *)
(***************************************************************************)
\* TakeTx with a fault: the sender stays in its slot.
TakeTxSkipped(n) == n

\* AutoOption::take_unchecked(&mut self.tx): the count of live senders after.
TakeTx(n) == n - 1

\* #[derive(Clone)] for AsyncIO: another handle to the same shared object
\* and another sender of the same queue.
Clone ==
    /\ facades >= 1
    /\ made < MaxClones
    /\ made' = made + 1
    /\ facades' = facades + 1
    /\ senders' = senders + 1
    /\ arcs' = arcs + 1
    /\ UNCHANGED binVars
    /\ UNCHANGED << dropping, phase, join, queue, in_progress, write_stats,
                    workerVars, store, callerVars, calls >>

\* Drop for AsyncIO: the sender is taken out of its slot and dropped.
DropFacade ==
    /\ facades >= 1
    /\ facades' = facades - 1
    /\ dropping' = dropping + 1
    /\ senders' = TakeTx(senders)
    /\ UNCHANGED binVars
    /\ UNCHANGED << made, arcs, phase, join, queue, in_progress, write_stats,
                    workerVars, store, callerVars, calls >>

\* After Drop for AsyncIO, its fields go: the Arc<AsyncIOShared> is
\* released, and when it was the last one Drop for AsyncIOShared begins.
DropShared ==
    /\ dropping >= 1
    /\ dropping' = dropping - 1
    /\ arcs' = arcs - 1
    /\ phase' = IF arcs = 1 THEN "joining" ELSE phase
    /\ UNCHANGED binVars
    /\ UNCHANGED << made, facades, senders, join, queue, in_progress, write_stats,
                    workerVars, store, callerVars, calls >>

\* Drop for AsyncIOShared: join.join().expect(..) on the next handle
\* returns once that thread has ended, and panics if it ended by a panic.
JoinWorker ==
    /\ phase = "joining"
    /\ join # <<>>
    /\ pc[Head(join)] \in {"exited", "panicked"}
    /\ IF pc[Head(join)] = "exited"
       THEN /\ join' = Tail(join)
            /\ phase' = IF Tail(join) = <<>> THEN "joined" ELSE phase
       ELSE /\ phase' = "join_panicked"
            /\ UNCHANGED join
    /\ UNCHANGED binVars
    /\ UNCHANGED << made, facades, dropping, senders, arcs, queue, in_progress,
                    write_stats, workerVars, store, callerVars, calls >>

\* Drop for AsyncIOSharedInner, once the last handle to it is gone:
\* debug_assert!(self.in_progress.is_empty()).
Teardown ==
    /\ phase = "joined"
    /\ phase' = IF in_progress = {} THEN "torn_down" ELSE "assert_failed"
    /\ UNCHANGED binVars
    /\ UNCHANGED << made, facades, dropping, senders, arcs, join, queue, in_progress,
                    write_stats, workerVars, store, callerVars, calls >>

(***************************************************************************)
(* The callers: submissions through the facade, and the result handles.    *)
(***************************************************************************)
\* Operation i has left the pool: it is neither queued nor at a worker.
Finished(i) ==
    /\ i <= Len(ops)
    /\ \A k \in 1 .. Len(queue) : queue[k].id # i
    /\ \A w \in Workers : cur[w].id # i

SingleReply(m) == m.has_tx /\ m.kind # "ListRecursively"

\* Submit with a fault: the send does not wait for room in the queue.
SubmitUnbounded(msgs, cap) ==
    /\ facades >= 1
    /\ Len(ops) < cap
    /\ \E t \in msgs :
        LET m == [t EXCEPT !.id = Len(ops) + 1] IN
          /\ queue' = Append(queue, m)
          /\ ops' = Append(ops, m)
          /\ rx' = [rx EXCEPT ![m.id] = IF m.has_tx THEN "held" ELSE "none"]
          /\ ctx' = [ctx EXCEPT ![m.id] =
                        [unfinished |-> { i \in 1 .. Len(ops) : ~Finished(i) },
                         waited |-> { i \in 1 .. Len(ops) : rx[i] = "done" }]]
    /\ UNCHANGED binVars
    /\ UNCHANGED << facadeVars, in_progress, write_stats, workerVars, store,
                    reply, calls >>

\* Any submitting method of AsyncIO, the callers drawing from `msgs` and
\* submitting at most `cap` operations: the message is sent on the queue,
\* which blocks while the queue is full.
Submit(msgs, cap) ==
    /\ facades >= 1
    /\ Len(ops) < cap
    /\ Len(queue) < ThreadNum
    /\ \E t \in msgs :
        LET m == [t EXCEPT !.id = Len(ops) + 1] IN
          /\ queue' = Append(queue, m)
          /\ ops' = Append(ops, m)
          /\ rx' = [rx EXCEPT ![m.id] = IF m.has_tx THEN "held" ELSE "none"]
          /\ ctx' = [ctx EXCEPT ![m.id] =
                        [unfinished |-> { i \in 1 .. Len(ops) : ~Finished(i) },
                         waited |-> { i \in 1 .. Len(ops) : rx[i] = "done" }]]
    /\ UNCHANGED binVars
    /\ UNCHANGED << facadeVars, in_progress, write_stats, workerVars, store,
                    reply, calls >>

\* Wait with a fault: wait returns before a reply has arrived.
WaitEarly(i) ==
    /\ i <= Len(ops)
    /\ SingleReply(ops[i])
    /\ rx[i] = "held"
    /\ rx' = [rx EXCEPT ![i] = "done"]
    /\ UNCHANGED binVars
    /\ UNCHANGED << facadeVars, queue, in_progress, write_stats, workerVars,
                    store, ops, reply, ctx, calls >>

\* AsyncIOResult::wait returns the reply; the handle is consumed.
Wait(i) ==
    /\ i <= Len(ops)
    /\ SingleReply(ops[i])
    /\ rx[i] = "held"
    /\ reply[i] # <<>>
    /\ rx' = [rx EXCEPT ![i] = "done"]
    /\ UNCHANGED binVars
    /\ UNCHANGED << facadeVars, queue, in_progress, write_stats, workerVars,
                    store, ops, reply, ctx, calls >>

\* The iterator of list_recursively reaches the end of its channel.
IterEnd(i) ==
    /\ i <= Len(ops)
    /\ ops[i].kind = "ListRecursively"
    /\ rx[i] = "held"
    /\ Finished(i)
    /\ rx' = [rx EXCEPT ![i] = "done"]
    /\ UNCHANGED binVars
    /\ UNCHANGED << facadeVars, queue, in_progress, write_stats, workerVars,
                    store, ops, reply, ctx, calls >>

\* A result handle (or iterator) is dropped without being waited on.
DropHandle(i) ==
    /\ i <= Len(ops)
    /\ rx[i] = "held"
    /\ rx' = [rx EXCEPT ![i] = "dropped"]
    /\ UNCHANGED binVars
    /\ UNCHANGED << facadeVars, queue, in_progress, write_stats, workerVars,
                    store, ops, reply, ctx, calls >>

(***************************************************************************)
(* The backup binary (src/bin.rs).  Buffers are seen as their lengths and  *)
(* an edge as its offset; the rolling sum (the rollsum crate) finds edges  *)
(* where it will.                                                          *)
(***************************************************************************)
\* The length of a sha256 sum, which is what an edge adds to the index.
SumLen == 32
\* An index no longer than this is returned as the digest.
MaxInlineIndex == 32

\* Message::Data(data, edges, chunk_type) and Message::Exit
DataMsg(len, edges, type) ==
    [kind |-> "Data", len |-> len, edges |-> edges, type |-> type]
ExitMsg == [kind |-> "Exit", len |-> 0, edges |-> <<>>, type |-> "Data"]

\* Chunker::new
NewChunker == [bytes_total |-> 0, bytes_chunk |-> 0, chunks_total |-> 0]

\* Chunker::input, its loop from offset `ofs` of a buffer of `len` bytes:
\* the offsets of the edges it can return, find_chunk_edge finding an edge
\* after any number of bytes or none, at most `budget` edges in all.
RECURSIVE EdgeOffsets(_, _, _)
EdgeOffsets(ofs, len, budget) ==
    IF ofs >= len \/ budget = 0 THEN { <<>> }
    ELSE { <<>> } \cup
         UNION { { << ofs + c >> \o r : r \in EdgeOffsets(ofs + c, len, budget - 1) } :
                 c \in 1 .. (len - ofs) }

\* Chunker::input and edge_found: the counters after a buffer of `len`
\* bytes in which `edges` were found.  bytes_chunk is never set back.
ChunkerInput(ch, len, edges) ==
    [bytes_total |-> ch.bytes_total + len,
     bytes_chunk |-> ch.bytes_chunk + len,
     chunks_total |-> ch.chunks_total + Len(edges)]

\* Chunker::finish: the edges it returns.
ChunkerFinish(ch) == IF ch.bytes_chunk # 0 THEN << 0 >> ELSE <<>>

\* What main reads next: a read of stdin, of any length up to the buffer's
\* and 0 at the end of the input, or the index handed to the recursive
\* call and nothing after it.
InputLens ==
    IF chunk_type = "Data"
    THEN IF stdin_reads < MaxReads THEN 0 .. MaxBufLen ELSE {0}
    ELSE {feed}

\* store_with_io_func, one turn of its loop.
StoreRead ==
    /\ main_pc = "read"
    /\ \E len \in InputLens :
          IF len = 0
          THEN /\ main_pc' = "finish"
               /\ UNCHANGED << chan, chunker, index, feed, stdin_reads, rolled >>
          ELSE \E edges \in EdgeOffsets(0, len, MaxChunks - rolled) :
                  /\ chunker' = ChunkerInput(chunker, len, edges)
                  /\ index' = index + SumLen * Len(edges)
                  /\ rolled' = rolled + Len(edges)
                  /\ chan' = Append(chan, DataMsg(len, edges, chunk_type))
                  /\ feed' = 0
                  /\ stdin_reads' =
                        IF chunk_type = "Data" THEN stdin_reads + 1 ELSE stdin_reads
                  /\ UNCHANGED main_pc
    /\ UNCHANGED << pending_data, chunk_type, writer_pc >>
    /\ UNCHANGED poolVars

\* store_with_io_func after its loop: the chunker is finished and the last
\* message, with an empty buffer, is sent.
StoreFinish ==
    /\ main_pc = "finish"
    /\ LET edges == ChunkerFinish(chunker)
       IN  /\ chunker' = [chunker EXCEPT !.chunks_total = @ + Len(edges)]
           /\ index' = index + SumLen * Len(edges)
           /\ chan' = Append(chan, DataMsg(0, edges, chunk_type))
    /\ main_pc' = "stored"
    /\ UNCHANGED << pending_data, chunk_type, feed, stdin_reads, rolled, writer_pc >>
    /\ UNCHANGED poolVars

\* store_with_io_func: an index of more than one sum is stored in its turn.
StoreIndex ==
    /\ main_pc = "stored"
    /\ index > MaxInlineIndex
    /\ feed' = index
    /\ index' = 0
    /\ chunker' = NewChunker
    /\ chunk_type' = "Index"
    /\ main_pc' = "read"
    /\ UNCHANGED << chan, pending_data, stdin_reads, rolled, writer_pc >>
    /\ UNCHANGED poolVars

\* store_with_io_func returns the index; store_stdio returns to main.
StoreReturn ==
    /\ main_pc = "stored"
    /\ index <= MaxInlineIndex
    /\ main_pc' = "exit"
    /\ UNCHANGED << chan, pending_data, chunker, index, chunk_type, feed,
                    stdin_reads, rolled, writer_pc >>
    /\ UNCHANGED poolVars

\* main: tx.send(Message::Exit)
SendExit ==
    /\ main_pc = "exit"
    /\ chan' = Append(chan, ExitMsg)
    /\ main_pc' = "join"
    /\ UNCHANGED << pending_data, chunker, index, chunk_type, feed,
                    stdin_reads, rolled, writer_pc >>
    /\ UNCHANGED poolVars

\* main: chunk_writer_join.join().unwrap()
JoinWriter ==
    /\ main_pc = "join"
    /\ writer_pc \in {"returned", "panicked"}
    /\ main_pc' = IF writer_pc = "returned" THEN "done" ELSE "panicked"
    /\ UNCHANGED << chan, pending_data, chunker, index, chunk_type, feed,
                    stdin_reads, rolled, writer_pc >>
    /\ UNCHANGED poolVars

\* chunk_writer on Message::Data: without edges the buffer is kept; with
\* edges every edge's turn leaves pending_data empty (drained into the new
\* file, or cleared), and what follows the last edge is kept.
WriterData(pd, m) ==
    IF m.edges = <<>> THEN Append(pd, m.len)
    ELSE LET prev_ofs == m.edges[Len(m.edges)]
         IN  IF prev_ofs # m.len THEN << m.len - prev_ofs >> ELSE <<>>

\* chunk_writer, one turn of its loop: a message is received.  On Exit,
\* assert!(pending_data.is_empty()).
chunk_writer ==
    /\ writer_pc = "recv"
    /\ chan # <<>>
    /\ chan' = Tail(chan)
    /\ IF Head(chan).kind = "Exit"
       THEN /\ writer_pc' = IF pending_data = <<>> THEN "returned" ELSE "panicked"
            /\ UNCHANGED pending_data
       ELSE /\ pending_data' = WriterData(pending_data, Head(chan))
            /\ UNCHANGED writer_pc
    /\ UNCHANGED << chunker, index, chunk_type, feed, stdin_reads, rolled, main_pc >>
    /\ UNCHANGED poolVars

\* main has made the channel and spawned chunk_writer.
BinInit ==
    /\ chan = <<>>
    /\ pending_data = <<>>
    /\ chunker = NewChunker
    /\ index = 0
    /\ chunk_type = "Data"
    /\ feed = 0
    /\ stdin_reads = 0
    /\ rolled = 0
    /\ main_pc = "read"
    /\ writer_pc = "recv"

(***************************************************************************)
(* The specification.                                                      *)
(***************************************************************************)
\* AsyncIO::new has returned: the workers are spawned and wait on the
\* empty queue; the one facade holds the one sender.
Init ==
    /\ made = 1
    /\ facades = 1
    /\ dropping = 0
    /\ senders = 1
    /\ arcs = 1
    /\ phase = "running"
    /\ join = [w \in Workers |-> w]
    /\ queue = <<>>
    /\ in_progress = {}
    /\ write_stats = [new_chunks |-> 0, new_bytes |-> 0]
    /\ pc = [w \in Workers |-> "recv"]
    /\ cur = [w \in Workers |-> NoMsg]
    /\ want = [w \in Workers |-> <<>>]
    /\ guards = [w \in Workers |-> <<>>]
    /\ out = [w \in Workers |-> <<>>]
    /\ store = [p \in JoinedPaths |-> NoFile]
    /\ ops = <<>>
    /\ rx = [i \in OpIds |-> "none"]
    /\ reply = [i \in OpIds |-> <<>>]
    /\ calls = [i \in OpIds |-> 0]
    /\ ctx = [i \in OpIds |-> [unfinished |-> {}, waited |-> {}]]
    /\ BinInit

\* The pool at work under a facade that stays alive.
Next ==
    \/ \E w \in Workers : WorkerNext(w)
    \/ Submit(AllMsgs, MaxOps)
    \/ \E i \in OpIds : Wait(i)
    \/ \E i \in OpIds : IterEnd(i)
    \/ \E i \in OpIds : DropHandle(i)

Spec == Init /\ [][Next]_vars

\* The facade's life: clones, drops and the shutdown of the pool, the
\* callers working on one file and renaming it.
LifeMsgs ==
    { m \in AllMsgs :
        /\ m.path = Path(FALSE, <<"a">>)
        /\ ~m.dst.abs
        /\ m.data \in {<<>>, Hello} }

LifeNext ==
    \/ \E w \in Workers : WorkerNext(w)
    \/ \E w \in Workers : Exit(w)
    \/ Clone
    \/ DropFacade
    \/ DropShared
    \/ JoinWorker
    \/ Teardown
    \/ Submit(LifeMsgs, MaxOps)
    \/ \E i \in OpIds : Wait(i)
    \/ \E i \in OpIds : IterEnd(i)
    \/ \E i \in OpIds : DropHandle(i)

LifeSpec == Init /\ [][LifeNext]_vars

\* The pool and its shutdown under fair scheduling, the callers keeping
\* every result handle: they write and read one file and rename between
\* two paths.
FairMsgs ==
    { m \in AllMsgs :
        /\ ~m.path.abs /\ ~m.dst.abs
        /\ \/ m.kind = "Rename"
           \/ /\ m.kind \in {"Write", "Read"}
              /\ m.path = Path(FALSE, <<"a">>)
              /\ m.data \in {<<>>, Hello}
              /\ ~m.idempotent }

\* A worker's steps when no receiver is ever dropped.
FairWorker(w) ==
    \/ Recv(w)
    \/ Exit(w)
    \/ Acquire(w)
    \/ Wake(w)
    \/ BackendCall(w)
    \/ Release(w)
    \/ Send(w)
    \/ NoSend(w)

FairNext ==
    \/ \E w \in Workers : FairWorker(w)
    \/ DropFacade
    \/ DropShared
    \/ JoinWorker
    \/ Teardown
    \/ Submit(FairMsgs, MaxOps)
    \/ \E i \in OpIds : Wait(i)

\* Every worker thread keeps being scheduled, and a drop that has begun
\* runs on: the callers alone are free to stop.
FairSpec ==
    /\ Init
    /\ [][FairNext]_vars
    /\ \A w \in Workers : WF_vars(FairWorker(w))
    /\ WF_vars(DropShared \/ JoinWorker \/ Teardown)

\* Writes and reads alone, every handle kept: the callers write one file
\* with write(), under either of its names, and read it back.
RWMsgs ==
    { m \in AllMsgs :
        /\ Join(RootPath, m.path) = Path(TRUE, <<"r", "a">>)
        /\ \/ m.kind = "Read"
           \/ m.kind = "Write" /\ m.has_tx /\ ~m.idempotent }

RWNext ==
    \/ \E w \in Workers :
          Recv(w) \/ Acquire(w) \/ Wake(w) \/ BackendCall(w) \/ Release(w) \/ Send(w)
    \/ Submit(RWMsgs, MaxOpsRW)
    \/ \E i \in OpIds : Wait(i)

RWSpec == Init /\ [][RWNext]_vars

\* Listings of a tree: the backend starts with any number of files up to
\* MaxFiles in the directory `sub` below the root, and the callers list
\* it recursively and read the stream to its end.
ListInit ==
    /\ made = 1
    /\ facades = 1
    /\ dropping = 0
    /\ senders = 1
    /\ arcs = 1
    /\ phase = "running"
    /\ join = [w \in Workers |-> w]
    /\ queue = <<>>
    /\ in_progress = {}
    /\ write_stats = [new_chunks |-> 0, new_bytes |-> 0]
    /\ pc = [w \in Workers |-> "recv"]
    /\ cur = [w \in Workers |-> NoMsg]
    /\ want = [w \in Workers |-> <<>>]
    /\ guards = [w \in Workers |-> <<>>]
    /\ out = [w \in Workers |-> <<>>]
    /\ \E n \in 0 .. MaxFiles :
          store = [q \in JoinedPaths \cup TreePaths |->
                      IF q \in { TreeFile(i) : i \in 1 .. n }
                      THEN File(<<118>>) ELSE NoFile]
    /\ ops = <<>>
    /\ rx = [i \in OpIds |-> "none"]
    /\ reply = [i \in OpIds |-> <<>>]
    /\ calls = [i \in OpIds |-> 0]
    /\ ctx = [i \in OpIds |-> [unfinished |-> {}, waited |-> {}]]
    /\ BinInit

ListMsgs == { Msg(0, "ListRecursively", SubPath, SubPath, <<>>, FALSE, TRUE) }

ListNext ==
    \/ \E w \in Workers : Recv(w) \/ BackendCall(w) \/ Send(w) \/ NoSend(w)
    \/ Submit(ListMsgs, MaxOpsList)
    \/ \E i \in OpIds : IterEnd(i)

ListSpec == ListInit /\ [][ListNext]_vars

\* The backup binary alone, on every input within the bounds.
BinNext ==
    \/ StoreRead
    \/ StoreFinish
    \/ StoreIndex
    \/ StoreReturn
    \/ SendExit
    \/ JoinWriter
    \/ chunk_writer

BinSpec == Init /\ [][BinNext]_vars

(***************************************************************************)
(* Properties of the pool at work (Spec).                                  *)
(***************************************************************************)
Range(f) == { f[i] : i \in DOMAIN f }

\* Worker w is inside a backend call of write, read, read_metadata, remove
\* or rename that involves the joined path p.
InBackendOn(w, p) == pc[w] = "backend" /\ p \in Range(Wanted(cur[w]))

\* C1: per-path mutual exclusion.  In every reachable state, for every
\* joined path, at most one worker is inside a backend call of write, read,
\* read_metadata, remove or rename that involves it.
C1_MutualExclusion ==
    \A p \in JoinedPaths :
        Cardinality({ w \in Workers : InBackendOn(w, p) }) <= 1

\* C1, its case: one worker is inside the backend write of a path while
\* another, holding a write to the same joined path, sleeps waiting for it.
C1_Witness ==
    \E w1, w2 \in Workers :
        /\ w1 # w2
        /\ cur[w1].kind = "Write" /\ cur[w2].kind = "Write"
        /\ pc[w1] = "backend" /\ pc[w2] = "sleep"
        /\ Head(want[w2]) \in Range(guards[w1])

\* C2: every result handle of a single-reply operation gets exactly one
\* reply: eventually one is sent on its channel, and never a second.
C2_ExactlyOneReply ==
    \A i \in OpIds :
        /\ (i <= Len(ops) /\ SingleReply(ops[i])) ~> (Len(reply[i]) = 1)
        /\ [](Len(reply[i]) <= 1)

\* C3: an idempotent write that finds its joined path in the in-progress
\* set returns success at once: the worker's next step takes it to the
\* reply with Ok(()), it does not sleep, and no backend call is made.
C3_IdempotentCollisionReturns ==
    [][ \A w \in Workers :
          ( /\ pc[w] = "acquire"
            /\ cur[w].kind = "Write" /\ cur[w].idempotent
            /\ Head(want[w]) \in in_progress
            /\ pc'[w] # pc[w] )
          => ( /\ pc'[w] = "send"
               /\ out'[w] = << Ok(Unit) >>
               /\ calls' = calls ) ]_vars

\* The submitted writes for which the backend's write was called.
BackendWrites == { i \in 1 .. Len(ops) : ops[i].kind = "Write" /\ calls[i] > 0 }

RECURSIVE SumBytes(_)
SumBytes(ids) ==
    IF ids = {} THEN 0
    ELSE LET i == CHOOSE j \in ids : TRUE
         IN  Len(ops[i].data) * calls[i] + SumBytes(ids \ {i})

\* C4: once every submitted write has been processed, new_chunks is the
\* number of writes whose backend call was made and new_bytes the sum of
\* their payloads' lengths.
C4_StatsTrackBackendWrites ==
    (\A i \in 1 .. Len(ops) : ops[i].kind = "Write" => Finished(i))
    => /\ write_stats.new_chunks = Cardinality(BackendWrites)
       /\ write_stats.new_bytes = SumBytes(BackendWrites)

\* C5: a write without a reply channel whose backend call failed makes its
\* worker panic: from the point where the result is in hand, the worker's
\* next step is the panic.
C5_CheckedWriteFailurePanics ==
    [][ \A w \in Workers :
          ( /\ pc[w] = "send"
            /\ cur[w].kind = "Write" /\ ~cur[w].has_tx
            /\ out[w] # <<>> /\ ~Head(out[w]).ok
            /\ pc'[w] # pc[w] )
          => pc'[w] = "panicked" ]_vars

(***************************************************************************)
(* Properties of the facade's life and the shutdown (LifeSpec).            *)
(***************************************************************************)
\* C6: when the shared object joins the workers (and ever after), every
\* sender of the work queue has been dropped.
C6_SendersDroppedBeforeJoin == phase # "running" => senders = 0

\* C6, its case: the join begins after the original and a clone were
\* dropped, while a message is still in the queue.
C6_Witness ==
    /\ phase = "joining"
    /\ made = MaxClones
    /\ queue # <<>>
    /\ Len(join) = ThreadNum

\* C7: once the last facade is dropped and the join begins, the queue is
\* drained, every operation is processed, every worker leaves its loop
\* without a panic and the join completes.
C7_CleanShutdownTerminates ==
    (phase = "joining")
    ~> ( /\ phase \in {"joined", "torn_down"}
         /\ queue = <<>>
         /\ \A i \in 1 .. Len(ops) : Finished(i)
         /\ \A w \in Workers : pc[w] = "exited" )

\* C8: a clone adds no worker thread, and while a facade is alive the queue
\* is open, the pool runs and no worker has left its loop.
C8_ClonesShareOnePool ==
    [][ /\ made' > made => join' = join /\ DOMAIN pc' = DOMAIN pc
        /\ facades >= 1 =>
             /\ senders >= 1
             /\ phase = "running"
             /\ \A w \in Workers : pc[w] # "exited"
        /\ facades' >= 1 =>
             /\ senders' >= 1
             /\ phase' = "running"
             /\ \A w \in Workers : pc'[w] # "exited" ]_vars

\* C8, its case: of two facades one is dropped for good; of the pool of
\* the one that is left a worker is inside a backend call and another
\* waits on the empty, open queue.
C8_Witness ==
    /\ made = 2
    /\ facades = 1 /\ dropping = 0 /\ arcs = 1 /\ senders = 1
    /\ queue = <<>>
    /\ Len(join) = ThreadNum
    /\ \E w1, w2 \in Workers : pc[w1] = "backend" /\ pc[w2] = "recv"

\* C9: once the workers are joined the in-progress set is empty, and the
\* assertion of the teardown holds.
C9_EmptyAtTeardown ==
    /\ phase # "assert_failed"
    /\ phase \in {"joined", "torn_down"} => in_progress = {}

\* C9, its case: the shared state is torn down after an operation that
\* held a path and whose backend call failed.
C9_Witness ==
    /\ phase = "torn_down"
    /\ \E i \in 1 .. Len(ops) :
          /\ Wanted(ops[i]) # <<>>
          /\ reply[i] # <<>>
          /\ ~reply[i][1].ok

(***************************************************************************)
(* The round trip of a write and a read (RWSpec).                          *)
(***************************************************************************)
\* Operation i is on the joined path p.
OnPath(i, p) == p \in Range(Wanted(ops[i]))

\* Read j follows write i of the same joined path: the caller had waited
\* on i's handle, which returned success, before it submitted j.
ReadsBack(i, j) ==
    /\ i < j /\ j <= Len(ops)
    /\ ops[i].kind = "Write" /\ ops[j].kind = "Read"
    /\ Join(RootPath, ops[i].path) = Join(RootPath, ops[j].path)
    /\ i \in ctx[j].waited
    /\ reply[i][1].ok
    /\ reply[j] # <<>>

\* The read returned the content the write was given.
SameContent(i, j) == reply[j][1].ok /\ reply[j][1].val = ops[i].data

\* C10 as stated: a read submitted after a write of its path was waited on
\* with success returns the written content, provided no other operation
\* on that path is submitted in between.  "In between" is read here at its
\* widest: no other operation on the path is submitted at any time after
\* the write.
C10_RoundTripAsStated ==
    \A i, j \in OpIds :
        ( /\ ReadsBack(i, j)
          /\ \A k \in 1 .. Len(ops) :
                (i < k /\ k # j) => ~OnPath(k, Join(RootPath, ops[i].path)) )
        => SameContent(i, j)

\* Operation k is out of the way of write i and read j: it had left the
\* pool before i was submitted, or was submitted after j had left it.
OutOfTheWay(k, i, j) ==
    \/ k < i /\ k \notin ctx[i].unfinished
    \/ k > j /\ j \notin ctx[k].unfinished

\* C10 amended: the read returns the written content provided every other
\* operation on that path submitted before the read had completed before
\* the write was submitted, and none is submitted between the write's
\* submission and the read's reply.
C10_RoundTrip ==
    \A i, j \in OpIds :
        ( /\ ReadsBack(i, j)
          /\ \A k \in 1 .. Len(ops) :
                (k # i /\ k # j /\ OnPath(k, Join(RootPath, ops[i].path)))
                => OutOfTheWay(k, i, j) )
        => SameContent(i, j)

\* C10, its case: a write replaces what an earlier, completed write of
\* another payload left at the path, given under another name, and the
\* read returns the new content.
C10_Witness ==
    \E i, j \in OpIds :
        /\ ReadsBack(i, j)
        /\ SameContent(i, j)
        /\ ops[i].path # ops[j].path
        /\ \E k \in 1 .. Len(ops) :
              /\ k < i /\ k \notin ctx[i].unfinished
              /\ ops[k].kind = "Write"
              /\ OnPath(k, Join(RootPath, ops[i].path))
              /\ ops[k].data # ops[i].data
              /\ reply[k] # <<>> /\ reply[k][1].ok

(***************************************************************************)
(* Properties of list_recursively (Spec, ListSpec).                        *)
(***************************************************************************)
\* C11: list_recursively on a path that does not exist sends nothing: the
\* handler returns with no result to send, the reply channel stays empty
\* and is closed as the worker goes back to receive the next message.
C11_MissingPathEmptyStream ==
    [][ \A w \in Workers :
          LET m == cur[w] IN
          /\ ( /\ m.kind = "ListRecursively" /\ pc[w] = "backend"
               /\ ~Exists(store, Join(RootPath, m.path))
               /\ pc'[w] # pc[w] )
             => ( pc'[w] = "send" /\ out'[w] = <<>> /\ reply' = reply )
          /\ ( /\ m.kind = "ListRecursively" /\ pc[w] = "send"
               /\ out[w] = <<>> /\ reply[m.id] = <<>>
               /\ pc'[w] # pc[w] )
             => ( /\ pc'[w] = "recv"
                  /\ reply'[m.id] = <<>>
                  /\ \A k \in 1 .. Len(queue') : queue'[k].id # m.id
                  /\ \A w2 \in Workers : cur'[w2].id # m.id ) ]_vars

\* C11, its case: the first operation lists a path of the empty store, its
\* iterator has ended with no item, and an operation submitted after it
\* was served.
C11_Witness ==
    /\ Len(ops) = 2
    /\ ops[1].kind = "ListRecursively"
    /\ rx[1] = "done" /\ reply[1] = <<>>
    /\ ops[2].kind = "Read"
    /\ ctx[2].unfinished = {}
    /\ reply[2] = << Err("NotFound") >>

\* Listing i has run to its end.
Listed(i) == ops[i].kind = "ListRecursively" /\ Finished(i)

\* The number of regular files below the path that operation i lists.
NFiles(i) == Len(FilesUnder(store, Join(RootPath, ops[i].path)))

\* No entry of listing i's walk failed.
NoWalkError(i) == \A k \in 1 .. Len(reply[i]) : reply[i][k].ok

\* C12 as stated: a tree of exactly 101 regular files gives a flush of
\* more than 100 entries followed by a trailing flush of 1 entry.
C12_BatchBoundaryAsStated ==
    \A i \in 1 .. Len(ops) :
        (Listed(i) /\ NoWalkError(i) /\ NFiles(i) = BatchLimit + 1)
        => /\ Len(reply[i]) = 2
           /\ Len(reply[i][1].val) > BatchLimit
           /\ Len(reply[i][2].val) = 1

\* C12 amended: a tree of exactly 101 regular files gives one flush of
\* 101 entries and no trailing flush; a tree of exactly 102 gives a flush
\* of 101 entries followed by a trailing flush of 1 entry.
C12_BatchBoundary ==
    \A i \in 1 .. Len(ops) :
        (Listed(i) /\ NoWalkError(i))
        => /\ NFiles(i) = BatchLimit + 1
                => /\ Len(reply[i]) = 1
                   /\ Len(reply[i][1].val) = BatchLimit + 1
           /\ NFiles(i) = BatchLimit + 2
                => /\ Len(reply[i]) = 2
                   /\ Len(reply[i][1].val) = BatchLimit + 1
                   /\ Len(reply[i][2].val) = 1

\* C12, its case: a tree of 102 files was listed to the end of the stream.
C12_Witness ==
    \E i \in 1 .. Len(ops) :
        /\ Listed(i) /\ NoWalkError(i) /\ rx[i] = "done"
        /\ NFiles(i) = BatchLimit + 2
        /\ Len(reply[i]) = 2

\* The entries of all Ok batches of a stream, in order.
RECURSIVE ConcatOk(_)
ConcatOk(rs) ==
    IF rs = <<>> THEN <<>>
    ELSE (IF Head(rs).ok THEN Head(rs).val ELSE <<>>) \o ConcatOk(Tail(rs))

\* The regular files a walk produced, in order.
WalkFiles(wk) ==
    LET IsFile(e) == e.ok /\ e.is_file
        fs == SelectSeq(wk, IsFile)
    IN  [k \in 1 .. Len(fs) |-> fs[k].path]

WalkErrors(wk) == Cardinality({ k \in 1 .. Len(wk) : ~wk[k].ok })

\* C13: batching neither loses nor duplicates entries.  The Ok batches of
\* a finished listing, put end to end, are the regular files of a walk of
\* the tree, each once and in the walk's order, with as many error items
\* as the walk had failures; no batch is empty and every batch but the
\* last has 101 entries; 250 files give 250 items in at least 3 batches.
C13_BatchingKeepsEntries ==
    \A i \in 1 .. Len(ops) :
        Listed(i) =>
          LET p == Join(RootPath, ops[i].path)
              IsOk(r) == r.ok
              oks == SelectSeq(reply[i], IsOk)
          IN  /\ \E wk \in Walks(store, p) :
                    /\ ConcatOk(reply[i]) = WalkFiles(wk)
                    /\ Len(reply[i]) - Len(oks) = WalkErrors(wk)
              /\ \A k \in 1 .. Len(oks) :
                    /\ oks[k].val # <<>>
                    /\ k < Len(oks) => Len(oks[k].val) = BatchLimit + 1
              /\ (NFiles(i) = 250 /\ NoWalkError(i))
                    => Len(ConcatOk(reply[i])) = 250 /\ Len(oks) >= 3

\* C13, its case: a tree of 250 files was listed to the end of the stream,
\* in three batches after the error item of an entry the walk could not
\* read.
C13_Witness ==
    \E i \in 1 .. Len(ops) :
        /\ Listed(i) /\ rx[i] = "done"
        /\ NFiles(i) = 250
        /\ Len(reply[i]) = 4 /\ ~reply[i][1].ok
        /\ Len(ConcatOk(reply[i])) = 250

(***************************************************************************)
(* Errors, dropped receivers and the in-progress registry (Spec).          *)
(***************************************************************************)
\* C14: a backend error is propagated as it is and never retried.  No
\* operation gets a second backend call; the result a handler holds is not
\* changed on its way to the reply channel; and a worker that holds a
\* failed call's error for a handle the caller keeps sends that error as
\* the one reply and goes back to receive, without a panic.
C14_ErrorsPropagated ==
    [][ /\ \A i \in OpIds : calls'[i] <= 1
        /\ \A w \in Workers :
             LET m == cur[w] IN
             /\ pc[w] = "release" => out'[w] = out[w]
             /\ ( /\ pc[w] = "send" /\ SingleReply(m)
                  /\ out[w] # <<>> /\ ~Head(out[w]).ok
                  /\ rx[m.id] = "held"
                  /\ pc'[w] # pc[w] )
                => ( /\ reply'[m.id] = << Head(out[w]) >>
                     /\ calls[m.id] = 1
                     /\ pc'[w] = "recv" ) ]_vars

\* C14, its case: a read of a missing file returned not-found through
\* wait(), after one backend call, and the operation the caller submitted
\* next was served.
C14_Witness ==
    /\ Len(ops) = 2
    /\ ops[1].kind = "Read"
    /\ rx[1] = "done" /\ reply[1] = << Err("NotFound") >> /\ calls[1] = 1
    /\ 1 \in ctx[2].waited
    /\ reply[2] # <<>>
    /\ \A w \in Workers : pc[w] # "panicked"

\* C15: a dropped receiver is tolerated.  A worker that has a result to
\* send on a channel whose receiver was dropped does not panic.
C15_DroppedReceiverTolerated ==
    [][ \A w \in Workers :
          ( /\ pc[w] = "send" /\ cur[w].has_tx /\ out[w] # <<>>
            /\ rx[cur[w].id] = "dropped" )
          => pc'[w] # "panicked" ]_vars

\* The workers that hold a guard for path p.
Holders(p) == { w \in Workers : p \in Range(guards[w]) }

\* C16: a path is in the in-progress set if and only if exactly one worker
\* holds a guard for it, no worker holds two guards for one path, and a
\* worker waiting on the queue holds none.
C16_RegistryInvariant ==
    /\ in_progress \subseteq JoinedPaths
    /\ \A p \in JoinedPaths :
          /\ Cardinality(Holders(p)) <= 1
          /\ p \in in_progress <=> Cardinality(Holders(p)) = 1
    /\ \A w \in Workers :
          /\ Cardinality(Range(guards[w])) = Len(guards[w])
          /\ pc[w] = "recv" => guards[w] = <<>>

\* C16, its case: a rename holds its two paths inside the backend call
\* while the other worker waits on the queue.
C16_Witness ==
    \E w1, w2 \in Workers :
        /\ pc[w1] = "backend" /\ Len(guards[w1]) = 2
        /\ in_progress = Range(guards[w1])
        /\ pc[w2] = "recv"

\* C17: exclusion is released on the error path.  A worker that is about
\* to send the error of write, read, read_metadata, remove or rename holds
\* no guard, and none of the handler's paths is in the set on its account.
C17_ReleasedOnError ==
    \A w \in Workers :
        ( /\ pc[w] = "send" /\ Wanted(cur[w]) # <<>>
          /\ out[w] # <<>> /\ ~Head(out[w]).ok )
        => /\ guards[w] = <<>>
           /\ \A p \in Range(Wanted(cur[w])) :
                 p \in in_progress => \E w2 \in Workers \ {w} : w2 \in Holders(p)

\* C17, its case: a read failed, and a write of the same joined path that
\* was submitted after it went through.
C17_Witness ==
    /\ Len(ops) = 2
    /\ ops[1].kind = "Read" /\ reply[1] = << Err("NotFound") >>
    /\ ops[2].kind = "Write"
    /\ Join(RootPath, ops[2].path) = Join(RootPath, ops[1].path)
    /\ ctx[2].unfinished = {}
    /\ reply[2] = << Ok(Unit) >>
    /\ in_progress = {}

(***************************************************************************)
(* Renames (FairSpec, Spec).                                               *)
(***************************************************************************)
\* What a worker processing a rename holds: the joined src alone or the
\* joined src and dst, in that order, never dst without src; both inside
\* the backend call; nothing when it sends the reply.
RenameHoldsInOrder(w) ==
    cur[w].kind = "Rename" =>
        /\ pc[w] \in {"acquire", "sleep"} =>
              guards[w] \o want[w] = Wanted(cur[w])
        /\ pc[w] = "backend" => guards[w] = Wanted(cur[w])
        /\ pc[w] = "release" =>
              guards[w] \in { Wanted(cur[w]), << Wanted(cur[w])[1] >> }
        /\ pc[w] = "send" => guards[w] = <<>>

\* C18: a rename acquires the joined src and then the joined dst, holds
\* both during the backend call, releases both before it sends the reply,
\* and always sends a reply.
C18_RenameAcquiresInOrderAndReplies ==
    /\ [](\A w \in Workers : RenameHoldsInOrder(w))
    /\ \A i \in OpIds :
          (i <= Len(ops) /\ ops[i].kind = "Rename") ~> (reply[i] # <<>>)

\* Workers w1 and w2, each processing a rename, each hold the path the
\* other one is waiting for.
Deadlocked(w1, w2) ==
    /\ w1 # w2
    /\ cur[w1].kind = "Rename" /\ cur[w2].kind = "Rename"
    /\ pc[w1] \in {"acquire", "sleep"} /\ pc[w2] \in {"acquire", "sleep"}
    /\ want[w1] # <<>> /\ Head(want[w1]) \in Range(guards[w2])
    /\ want[w2] # <<>> /\ Head(want[w2]) \in Range(guards[w1])

\* C19: inverted concurrent renames can deadlock.  Once two workers each
\* hold the path the other rename waits for, they stay so whatever step is
\* taken: neither rename gets a reply and the paths stay in the set.
C19_InvertedRenamesDeadlock ==
    [][ \A w1, w2 \in Workers :
          Deadlocked(w1, w2)
          => /\ Deadlocked(w1, w2)'
             /\ cur'[w1] = cur[w1] /\ cur'[w2] = cur[w2]
             /\ reply'[cur[w1].id] = <<>> /\ reply'[cur[w2].id] = <<>>
             /\ Range(guards[w1]) \cup Range(guards[w2]) \subseteq in_progress'
      ]_vars

\* C19, its case: rename(a, b) and rename(b, a) are at the two workers,
\* each worker holds its src and sleeps waiting for its dst.
C19_Witness ==
    \E w1, w2 \in Workers :
        /\ Deadlocked(w1, w2)
        /\ pc[w1] = "sleep" /\ pc[w2] = "sleep"
        /\ cur[w1].path = cur[w2].dst /\ cur[w1].dst = cur[w2].path
        /\ cur[w1].path = Path(FALSE, <<"a">>) /\ cur[w1].dst = Path(FALSE, <<"b">>)

(***************************************************************************)
(* The handlers without exclusion (Spec).                                  *)
(***************************************************************************)
\* C20: list, list_recursively and remove_dir_all take no exclusion.  A
\* worker processing one of them never waits for a path and holds no
\* guard, and its steps leave the in-progress set as it is.
C20_NoExclusionForLists ==
    [][ \A w \in Workers :
          cur[w].kind \in {"List", "ListRecursively", "RemoveDirAll"}
          => /\ pc[w] \in {"backend", "send"}
             /\ guards[w] = <<>> /\ want[w] = <<>>
             /\ (pc'[w] # pc[w] \/ out'[w] # out[w]) => in_progress' = in_progress
      ]_vars

\* C20, its case: while a worker is inside the backend write of a path
\* that it holds, a remove_dir_all of the same joined path, submitted
\* after that write, has got its reply.
C20_Witness ==
    \E w \in Workers : \E i \in 1 .. Len(ops) :
        /\ pc[w] = "backend" /\ cur[w].kind = "Write"
        /\ cur[w].id < i
        /\ ops[i].kind = "RemoveDirAll"
        /\ Join(RootPath, ops[i].path) \in Range(guards[w])
        /\ reply[i] # <<>>

(***************************************************************************)
(* The work queue and the order of operations (RWSpec, Spec, LifeSpec).    *)
(***************************************************************************)
\* The places, in the queue or at a worker, where operation i is.
InFlight(i) ==
    Cardinality({ k \in 1 .. Len(queue) : queue[k].id = i })
    + Cardinality({ w \in Workers : cur[w].id = i })

\* C21: the work queue is bounded by the number of workers.  It never
\* holds more than thread_num messages; nothing is submitted while it is
\* full; a submission puts its one message at the end; a message leaves
\* the queue from its head to exactly one worker, one that was waiting;
\* and an operation that has left the pool is never at a worker again.
C21_BoundedQueue ==
    [][ /\ Len(queue) <= ThreadNum /\ Len(queue') <= ThreadNum
        /\ Len(queue) = ThreadNum => ops' = ops
        /\ ops' # ops => queue' = Append(queue, ops'[Len(ops')])
        /\ (queue' # queue /\ ops' = ops) =>
              /\ queue' = Tail(queue)
              /\ \E w \in Workers :
                    /\ pc[w] = "recv" /\ cur'[w] = Head(queue)
                    /\ \A w2 \in Workers \ {w} : cur'[w2] = cur[w2]
        /\ \A i \in OpIds :
              /\ InFlight(i) <= 1
              /\ Finished(i) => Finished(i)'
      ]_vars

\* C21, its case: the queue is full with the second and third operation,
\* the third submitted once a worker had taken the first.
C21_Witness ==
    /\ Len(queue) = ThreadNum
    /\ Len(ops) = ThreadNum + 1
    /\ \E w \in Workers : cur[w].id = 1

\* C22: ordering by awaiting.  When the caller had waited on a's handle
\* (or read a's stream to its end) before it submitted b, a had got its
\* reply and left the pool, its one backend call made, before b was there
\* at all.  Messages are dequeued in
\* the order of submission: whatever is still queued was submitted after
\* everything that is not, and the queue is in submission order.
C22_OrderingByAwaiting ==
    /\ \A b \in 1 .. Len(ops) : \A a \in ctx[b].waited :
          /\ a < b
          /\ SingleReply(ops[a]) => Len(reply[a]) = 1
          /\ Finished(a)
          /\ CallsBackend(ops[a]) => calls[a] = 1
    /\ \A k \in 1 .. Len(queue) :
          /\ \A i \in 1 .. Len(ops) : InFlight(i) = 0 \/ (\E w \in Workers : cur[w].id = i)
                                      => i < queue[k].id
          /\ \A j \in 1 .. Len(queue) : j < k => queue[j].id < queue[k].id

\* C22, its case: of two writes submitted one after the other without a
\* wait, the first is dequeued and still before its backend call when the
\* backend call of the second has been made and replied to.
C22_Witness ==
    \E a, b \in 1 .. Len(ops) :
        /\ a < b /\ a \notin ctx[b].waited
        /\ ops[a].kind = "Write" /\ ops[b].kind = "Write"
        /\ \E w \in Workers : cur[w].id = a
        /\ calls[a] = 0
        /\ calls[b] = 1 /\ reply[b] # <<>>

\* Message m is a rename whose src and dst join to the same path.
SameJoined(m) ==
    m.kind = "Rename" /\ Join(RootPath, m.path) = Join(RootPath, m.dst)

\* C23: a rename whose src and dst join to the same path never completes.
\* Its worker never gets past the acquisition: no backend call is made and
\* no reply sent; the worker keeps the message for ever; once it holds the
\* path as src it keeps it, the path stays in the set, and the join of the
\* workers at shutdown never completes.
C23_SelfRenameNeverCompletes ==
    [][ \A w \in Workers :
          SameJoined(cur[w]) =>
            /\ pc[w] \in {"acquire", "sleep"}
            /\ calls[cur[w].id] = 0 /\ reply[cur[w].id] = <<>>
            /\ cur'[w] = cur[w]
            /\ phase \notin {"joined", "torn_down", "assert_failed"}
            /\ guards[w] # <<>> =>
                  /\ guards'[w] = guards[w]
                  /\ want'[w] = guards[w]
                  /\ Range(guards[w]) \subseteq in_progress'
      ]_vars

\* C23, its case: the last facade is gone and the join has begun; one
\* worker has exited, the other holds the path of a rename onto itself
\* and sleeps waiting for it.
C23_Witness ==
    \E w1, w2 \in Workers :
        /\ phase = "joining" /\ senders = 0
        /\ pc[w1] = "exited"
        /\ SameJoined(cur[w2]) /\ pc[w2] = "sleep"
        /\ guards[w2] = want[w2] /\ guards[w2] # <<>>

(***************************************************************************)
(* The backup binary (BinSpec).                                            *)
(***************************************************************************)
\* C24: whenever chunk_writer receives Exit its pending_data is empty, so
\* the assertion on Exit does not fail.
C24_PendingEmptyAtExit ==
    /\ (writer_pc = "recv" /\ chan # <<>> /\ Head(chan).kind = "Exit")
          => pending_data = <<>>
    /\ writer_pc # "panicked"
=============================================================================
